---- MODULE Spec2Model ----
(***************************************************************************)
(* Model of deploy_vm.py: main() provisions a static address, a firewall   *)
(* rule and a VM instance against the Compute Engine API, polling each     *)
(* asynchronous operation until it reports DONE.                           *)
(*                                                                         *)
(* The program is one thread.  pc is the statement about to run in the     *)
(* innermost function, stack is the chain of active calls.  Every API call *)
(* (.execute()) either returns a response chosen by the control plane or   *)
(* raises; an exception unwinds the stack one frame at a time because no   *)
(* function of the program has a handler.                                  *)
(***************************************************************************)
EXTENDS Integers, Sequences, FiniteSets, TLC

\* ---------------------------------------------------------------- bounds
\* largest number of non-terminal status responses the control plane gives
\* for one operation
MaxPolls == 3

\* ------------------------------------------------- configuration of main()
project == "cloud-assignment-450118"
region == "us-central1"
zone == "us-central1-a"
address_name == "vm-static-ip"
firewall_name == "allow-ssh-http"
instance_name == "cloud-ca-vm-instance"
machine_type == "n1-standard-2"
disk_size_gb == 250
source_image == "projects/ubuntu-os-cloud/global/images/family/ubuntu-2004-lts"

\* ------------------------------------------- what the control plane answers
\* the three operation endpoints the program polls
Scopes == {"regional", "global", "zonal"}

\* 'status' of an operation resource; ABSENT is a response without the key
NonTerminal == {"PENDING", "RUNNING", "ABSENT"}
Statuses == NonTerminal \cup {"DONE"}

\* 'error' of an operation resource; NoError is a response without the key
NoError == "no-error-key"
ErrorPayloads == {"quota exceeded", "name collision"}

Results == [status : Statuses, error : ErrorPayloads \cup {NoError}]
NoResult == [status |-> "none", error |-> NoError]

\* operation['name'] as assigned by the control plane
OpNames == {"operation-1", "operation-2"}
NoOp == "no-operation"

\* 'address' of the fetched address resource
AddressValues == {"34.1.2.3", "35.9.8.7"}
NoValue == "unset"

NoExc == [type |-> "none", args |-> "none"]

\* what the caller of main has seen so far: nothing yet, or a normal return
Running == [type |-> "running", args |-> "none"]
ReturnedNone == [type |-> "returned", args |-> "none"]
NoBody == [name |-> "none"]

VARIABLES
    pc,            \* statement about to run in the innermost active function
    stack,         \* active calls, outermost first
    operation,     \* the local 'operation' of each provisioner, by scope
    waitArg,       \* the 'operation' parameter of the running waiter
    static_ip,     \* main's local static_ip
    exc,           \* exception in flight
    raisedIn,      \* function whose statement raised exc
    outcome,       \* what the caller of main sees: Running, ReturnedNone or the exception
    submitted,     \* requests other than status queries, in the order issued
    fetched,       \* the address resource returned by addresses.get
    bodies,        \* request body sent with each insert
    queries,       \* number of status queries issued, by scope
    nonTerminal,   \* number of those answered with a non-terminal status
    lastResult,    \* last status response, by scope
    sleeps,        \* number of time.sleep(1) calls, by scope
    polled,        \* targets of the status queries issued
    returned       \* functions that returned normally

vars == <<pc, stack, operation, waitArg, static_ip, exc, raisedIn, outcome,
          submitted, fetched, bodies, queries, nonTerminal, lastResult,
          sleeps, polled, returned>>

loc == <<operation, waitArg, static_ip>>
req == <<submitted, fetched, bodies>>
obs == <<queries, nonTerminal, lastResult, sleeps, polled>>

\* -------------------------------------------------------------- helpers

\* variant: the test is the truthiness of result.get('status')
IsDone_Truthy(result) == result.status # "ABSENT"

\* result.get('status') == 'DONE'
IsDone(result) == result.status = "DONE"

\* variant: the membership test names the key 'status'
HasError_StatusKey(result) == result.status # "ABSENT"

\* 'error' in result
HasError(result) == result.error # NoError

\* variant: the exception carries a fixed message instead of the payload
OperationException_Message(result) == [type |-> "Exception", args |-> "operation failed"]

\* Exception(result['error'])
OperationException(result) == [type |-> "Exception", args |-> result.error]

\* the error .execute() raises when the request itself fails
HttpError(api) == [type |-> "HttpError", args |-> api]

Pop(s) == SubSeq(s, 1, Len(s) - 1)
Top(s) == s[Len(s)]

\* the function 'fn' is the innermost active one and is about to run 'label'
At(fn, label) ==
    /\ exc = NoExc
    /\ stack # <<>>
    /\ Top(stack) = fn
    /\ pc = label

\* a statement of 'fn' raises e
Raise(fn, e) ==
    /\ exc' = e
    /\ raisedIn' = fn
    /\ pc' = "raise"
    /\ UNCHANGED <<stack, outcome, returned>>

\* control moves to 'label' inside the same function
Goto(label) ==
    /\ pc' = label
    /\ UNCHANGED <<stack, exc, raisedIn, outcome, returned>>

\* call 'fn': push its frame and go to its first statement
Call(fn, label) ==
    /\ stack' = Append(stack, fn)
    /\ pc' = label
    /\ UNCHANGED <<exc, raisedIn, outcome, returned>>

\* normal return of the innermost function to 'label' of its caller
Return(label) ==
    /\ stack' = Pop(stack)
    /\ returned' = returned \cup {Top(stack)}
    /\ pc' = label
    /\ UNCHANGED <<exc, raisedIn, outcome>>

\* one status query at 'scope' for operation 'op' answered with 'result'
Observe(scope, ctx, op, result) ==
    /\ queries' = [queries EXCEPT ![scope] = @ + 1]
    /\ nonTerminal' = [nonTerminal EXCEPT
                          ![scope] = IF result.status = "DONE" THEN @ ELSE @ + 1]
    /\ lastResult' = [lastResult EXCEPT ![scope] = result]
    /\ polled' = polled \cup {[scope |-> scope, ctx |-> ctx, operation |-> op]}
    /\ UNCHANGED sleeps

\* a status query that fails in transport: it was issued, nothing observed
ObserveFailure(scope, ctx, op) ==
    /\ queries' = [queries EXCEPT ![scope] = @ + 1]
    /\ polled' = polled \cup {[scope |-> scope, ctx |-> ctx, operation |-> op]}
    /\ UNCHANGED <<nonTerminal, lastResult, sleeps>>

\* the responses the control plane may give to the next query at 'scope'
Answers(scope) ==
    {r \in Results : r.status = "DONE" \/ nonTerminal[scope] < MaxPolls}

\* ------------------------------------------------------------------ Init
Init ==
    /\ pc = "main_168"
    /\ stack = <<"main">>
    /\ operation = [s \in Scopes |-> NoOp]
    /\ waitArg = NoOp
    /\ static_ip = NoValue
    /\ exc = NoExc
    /\ raisedIn = "none"
    /\ outcome = Running
    /\ submitted = <<>>
    /\ fetched = [address |-> NoValue]
    /\ bodies = [a \in {"addresses.insert", "firewalls.insert", "instances.insert"} |-> NoBody]
    /\ queries = [s \in Scopes |-> 0]
    /\ nonTerminal = [s \in Scopes |-> 0]
    /\ lastResult = [s \in Scopes |-> NoResult]
    /\ sleeps = [s \in Scopes |-> 0]
    /\ polled = {}
    /\ returned = {}

\* ------------------------------------------------------- create_address
\* main: static_ip = create_address(...)   (the call)
Main_CallCreateAddress ==
    /\ At("main", "main_168")
    /\ Call("create_address", "ca_51")
    /\ UNCHANGED <<loc, req, obs>>

\* variant: a failed allocation request is sent a second time before giving up
CA_Insert_Retry ==
    /\ At("create_address", "ca_51")
    /\ bodies' = [bodies EXCEPT !["addresses.insert"] = [name |-> address_name]]
    /\ \/ \E n \in OpNames :
            /\ submitted' = Append(submitted, "addresses.insert")
            /\ operation' = [operation EXCEPT !["regional"] = n]
            /\ Goto("ca_60")
       \/ /\ submitted' = submitted \o <<"addresses.insert", "addresses.insert">>
          /\ Raise("create_address", HttpError("addresses.insert"))
          /\ UNCHANGED operation
    /\ UNCHANGED <<waitArg, static_ip, fetched, obs>>

\* operation = compute.addresses().insert(...).execute()
CA_Insert ==
    /\ At("create_address", "ca_51")
    /\ submitted' = Append(submitted, "addresses.insert")
    /\ bodies' = [bodies EXCEPT !["addresses.insert"] = [name |-> address_name]]
    /\ \/ \E n \in OpNames :
            /\ operation' = [operation EXCEPT !["regional"] = n]
            /\ Goto("ca_60")
       \/ /\ Raise("create_address", HttpError("addresses.insert"))
          /\ UNCHANGED operation
    /\ UNCHANGED <<waitArg, static_ip, fetched, obs>>

\* variant: the status is queried once and the loop is left whatever it says
CA_Poll_Once ==
    /\ At("create_address", "ca_60")
    /\ \/ \E result \in Answers("regional") :
            /\ Observe("regional", <<project, region>>, operation["regional"], result)
            /\ Goto("ca_69")
       \/ /\ ObserveFailure("regional", <<project, region>>, operation["regional"])
          /\ Raise("create_address", HttpError("regionOperations.get"))
    /\ UNCHANGED <<loc, req>>

\* one iteration of the regional poll loop up to the sleep
CA_Poll ==
    /\ At("create_address", "ca_60")
    /\ \/ \E result \in Answers("regional") :
            /\ Observe("regional", <<project, region>>, operation["regional"], result)
            /\ IF IsDone(result)
                  THEN Goto("ca_69")
                  ELSE Goto("ca_65")
       \/ /\ ObserveFailure("regional", <<project, region>>, operation["regional"])
          /\ Raise("create_address", HttpError("regionOperations.get"))
    /\ UNCHANGED <<loc, req>>

\* variant: the regional loop polls again without sleeping
CA_Sleep_Busy ==
    /\ At("create_address", "ca_65")
    /\ Goto("ca_60")
    /\ UNCHANGED <<loc, req, obs>>

\* time.sleep(1) of the regional poll loop
CA_Sleep ==
    /\ At("create_address", "ca_65")
    /\ sleeps' = [sleeps EXCEPT !["regional"] = @ + 1]
    /\ Goto("ca_60")
    /\ UNCHANGED <<loc, req, queries, nonTerminal, lastResult, polled>>

\* address = compute.addresses().get(...).execute(); return address['address']
\* and main's assignment of the returned value to static_ip
CA_Get ==
    /\ At("create_address", "ca_69")
    /\ submitted' = Append(submitted, "addresses.get")
    /\ \/ \E v \in AddressValues :
            /\ fetched' = [address |-> v]
            /\ static_ip' = fetched'.address
            /\ Return("main_173")
       \/ /\ Raise("create_address", HttpError("addresses.get"))
          /\ UNCHANGED <<fetched, static_ip>>
    /\ UNCHANGED <<operation, waitArg, bodies, obs>>

\* ------------------------------------------------- create_firewall_rule
\* variant: the rule also opens port 443
firewall_body_Wide ==
    [name |-> firewall_name,
     allowed |-> <<[IPProtocol |-> "tcp", ports |-> <<"22", "80", "443">>]>>,
     direction |-> "INGRESS",
     sourceRanges |-> <<"0.0.0.0/0">>]

\* the static rule specification of create_firewall_rule
firewall_body ==
    [name |-> firewall_name,
     allowed |-> <<[IPProtocol |-> "tcp", ports |-> <<"22", "80">>]>>,
     direction |-> "INGRESS",
     sourceRanges |-> <<"0.0.0.0/0">>]

\* main: create_firewall_rule(...)   (the call)
Main_CallCreateFirewall ==
    /\ At("main", "main_173")
    /\ Call("create_firewall_rule", "fw_81")
    /\ UNCHANGED <<loc, req, obs>>

\* operation = compute.firewalls().insert(project, body=firewall_body).execute()
FW_Insert ==
    /\ At("create_firewall_rule", "fw_81")
    /\ submitted' = Append(submitted, "firewalls.insert")
    /\ bodies' = [bodies EXCEPT !["firewalls.insert"] = firewall_body]
    /\ \/ \E n \in OpNames :
            /\ operation' = [operation EXCEPT !["global"] = n]
            /\ Goto("fw_93")
       \/ /\ Raise("create_firewall_rule", HttpError("firewalls.insert"))
          /\ UNCHANGED operation
    /\ UNCHANGED <<waitArg, static_ip, fetched, obs>>

\* variant: the rule is submitted and not waited for
FW_CallWait_Skip ==
    /\ At("create_firewall_rule", "fw_93")
    /\ Goto("fw_94")
    /\ UNCHANGED <<loc, req, obs>>

\* wait_for_global_operation(compute, project, operation['name'])   (the call)
FW_CallWait ==
    /\ At("create_firewall_rule", "fw_93")
    /\ waitArg' = operation["global"]
    /\ Call("wait_for_global_operation", "wg_38")
    /\ UNCHANGED <<operation, static_ip, req, obs>>

\* variant: the global waiter asks for the address operation
WG_Poll_StaleOperation ==
    /\ At("wait_for_global_operation", "wg_38")
    /\ \/ \E result \in Answers("global") :
            /\ Observe("global", <<project>>, operation["regional"], result)
            /\ IF IsDone(result)
                  THEN IF HasError(result)
                          THEN Raise("wait_for_global_operation", OperationException(result))
                          ELSE Return("fw_94")
                  ELSE Goto("wg_43")
       \/ /\ ObserveFailure("global", <<project>>, operation["regional"])
          /\ Raise("wait_for_global_operation", HttpError("globalOperations.get"))
    /\ UNCHANGED <<loc, req>>

\* one iteration of the loop of wait_for_global_operation up to the sleep;
\* break ends the function, which returns to create_firewall_rule
WG_Poll ==
    /\ At("wait_for_global_operation", "wg_38")
    /\ \/ \E result \in Answers("global") :
            /\ Observe("global", <<project>>, waitArg, result)
            /\ IF IsDone(result)
                  THEN IF HasError(result)
                          THEN Raise("wait_for_global_operation", OperationException(result))
                          ELSE Return("fw_94")
                  ELSE Goto("wg_43")
       \/ /\ ObserveFailure("global", <<project>>, waitArg)
          /\ Raise("wait_for_global_operation", HttpError("globalOperations.get"))
    /\ UNCHANGED <<loc, req>>

\* time.sleep(1) of wait_for_global_operation
WG_Sleep ==
    /\ At("wait_for_global_operation", "wg_43")
    /\ sleeps' = [sleeps EXCEPT !["global"] = @ + 1]
    /\ Goto("wg_38")
    /\ UNCHANGED <<loc, req, queries, nonTerminal, lastResult, polled>>

\* print("Firewall rule created.") and the return to main
FW_Return ==
    /\ At("create_firewall_rule", "fw_94")
    /\ Return("main_176")
    /\ UNCHANGED <<loc, req, obs>>

\* ------------------------------------------------------ create_instance
\* machine_type_full = f"zones/{zone}/machineTypes/{machine_type}"
machine_type_full(z, m) == <<"zones", z, "machineTypes", m>>

\* variant: the access config takes the instance name where the address belongs
config_WrongNat(name, z, m, ip, image, size) ==
    [name |-> name,
     machine_type |-> machine_type_full(z, m),
     disks |-> <<[boot |-> TRUE,
                  autoDelete |-> TRUE,
                  initializeParams |-> [sourceImage |-> image, diskSizeGb |-> size]]>>,
     networkInterfaces |->
         <<[network |-> "global/networks/default",
            accessConfigs |-> <<[name |-> "External_NAT",
                                 type |-> "ONE_TO_ONE_NAT",
                                 natIP |-> name]>>]>>,
     tags |-> [items |-> <<"http-server", "ssh-server">>]]

\* the instance configuration create_instance builds from its parameters
config(name, z, m, ip, image, size) ==
    [name |-> name,
     machine_type |-> machine_type_full(z, m),
     disks |-> <<[boot |-> TRUE,
                  autoDelete |-> TRUE,
                  initializeParams |-> [sourceImage |-> image, diskSizeGb |-> size]]>>,
     networkInterfaces |->
         <<[network |-> "global/networks/default",
            accessConfigs |-> <<[name |-> "External_NAT",
                                 type |-> "ONE_TO_ONE_NAT",
                                 natIP |-> ip]>>]>>,
     tags |-> [items |-> <<"http-server", "ssh-server">>]]

\* main: create_instance(..., static_ip, ...)   (the call)
Main_CallCreateInstance ==
    /\ At("main", "main_176")
    /\ Call("create_instance", "ci_103")
    /\ UNCHANGED <<loc, req, obs>>

\* operation = compute.instances().insert(project, zone, body=config).execute()
CI_Insert ==
    /\ At("create_instance", "ci_103")
    /\ submitted' = Append(submitted, "instances.insert")
    /\ bodies' = [bodies EXCEPT !["instances.insert"] =
                     config(instance_name, zone, machine_type, static_ip,
                            source_image, disk_size_gb)]
    /\ \/ \E n \in OpNames :
            /\ operation' = [operation EXCEPT !["zonal"] = n]
            /\ Goto("ci_137")
       \/ /\ Raise("create_instance", HttpError("instances.insert"))
          /\ UNCHANGED operation
    /\ UNCHANGED <<waitArg, static_ip, fetched, obs>>

\* variant: the instance is submitted and not waited for
CI_CallWait_Skip ==
    /\ At("create_instance", "ci_137")
    /\ Goto("ci_138")
    /\ UNCHANGED <<loc, req, obs>>

\* wait_for_operation(compute, project, zone, operation['name'])   (the call)
CI_CallWait ==
    /\ At("create_instance", "ci_137")
    /\ waitArg' = operation["zonal"]
    /\ Call("wait_for_operation", "wz_23")
    /\ UNCHANGED <<operation, static_ip, req, obs>>

\* variant: the error field is looked at before the status
WZ_Poll_ErrorFirst ==
    /\ At("wait_for_operation", "wz_23")
    /\ \/ \E result \in Answers("zonal") :
            /\ Observe("zonal", <<project, zone>>, waitArg, result)
            /\ IF HasError(result)
                  THEN Raise("wait_for_operation", OperationException(result))
                  ELSE IF IsDone(result)
                          THEN Return("ci_138")
                          ELSE Goto("wz_30")
       \/ /\ ObserveFailure("zonal", <<project, zone>>, waitArg)
          /\ Raise("wait_for_operation", HttpError("zoneOperations.get"))
    /\ UNCHANGED <<loc, req>>

\* variant: the break is missing, a finished operation is polled again
WZ_Poll_NoBreak ==
    /\ At("wait_for_operation", "wz_23")
    /\ \/ \E result \in Answers("zonal") :
            /\ Observe("zonal", <<project, zone>>, waitArg, result)
            /\ IF IsDone(result) /\ HasError(result)
                  THEN Raise("wait_for_operation", OperationException(result))
                  ELSE Goto("wz_30")
       \/ /\ ObserveFailure("zonal", <<project, zone>>, waitArg)
          /\ Raise("wait_for_operation", HttpError("zoneOperations.get"))
    /\ UNCHANGED <<loc, req>>

\* one iteration of the loop of wait_for_operation up to the sleep;
\* break ends the function, which returns to create_instance
WZ_Poll ==
    /\ At("wait_for_operation", "wz_23")
    /\ \/ \E result \in Answers("zonal") :
            /\ Observe("zonal", <<project, zone>>, waitArg, result)
            /\ IF IsDone(result)
                  THEN IF HasError(result)
                          THEN Raise("wait_for_operation", OperationException(result))
                          ELSE Return("ci_138")
                  ELSE Goto("wz_30")
       \/ /\ ObserveFailure("zonal", <<project, zone>>, waitArg)
          /\ Raise("wait_for_operation", HttpError("zoneOperations.get"))
    /\ UNCHANGED <<loc, req>>

\* variant: the wait gives up once it has slept twice
WZ_Sleep_Deadline ==
    /\ At("wait_for_operation", "wz_30")
    /\ sleeps' = [sleeps EXCEPT !["zonal"] = @ + 1]
    /\ IF sleeps["zonal"] >= 1
          THEN Raise("wait_for_operation", [type |-> "TimeoutError", args |-> "deadline"])
          ELSE Goto("wz_23")
    /\ UNCHANGED <<loc, req, queries, nonTerminal, lastResult, polled>>

\* time.sleep(1) of wait_for_operation
WZ_Sleep ==
    /\ At("wait_for_operation", "wz_30")
    /\ sleeps' = [sleeps EXCEPT !["zonal"] = @ + 1]
    /\ Goto("wz_23")
    /\ UNCHANGED <<loc, req, queries, nonTerminal, lastResult, polled>>

\* print('VM INSTANCE CREATED SUCCESSFULLY!') and the return to main
CI_Return ==
    /\ At("create_instance", "ci_138")
    /\ Return("main_end")
    /\ UNCHANGED <<loc, req, obs>>

\* main falls off its end: its caller sees a normal return
Main_Return ==
    /\ At("main", "main_end")
    /\ stack' = Pop(stack)
    /\ returned' = returned \cup {"main"}
    /\ outcome' = ReturnedNone
    /\ pc' = "exit"
    /\ UNCHANGED <<exc, raisedIn, loc, req, obs>>

\* --------------------------------------------------- exception unwinding
\* variant: main catches what create_firewall_rule raises and carries on
Propagate_Swallow ==
    /\ exc # NoExc
    /\ stack # <<>>
    /\ stack' = Pop(stack)
    /\ IF Top(stack) = "create_firewall_rule"
          THEN /\ exc' = NoExc
               /\ pc' = "main_176"
               /\ outcome' = outcome
          ELSE /\ exc' = exc
               /\ IF Len(stack) = 1
                     THEN /\ outcome' = exc
                          /\ pc' = "exit"
                     ELSE /\ outcome' = outcome
                          /\ pc' = pc
    /\ UNCHANGED <<raisedIn, returned, loc, req, obs>>

\* variant: main releases the address when a later step fails
Propagate_Rollback ==
    /\ exc # NoExc
    /\ stack # <<>>
    /\ stack' = Pop(stack)
    /\ IF Len(stack) = 1
          THEN /\ outcome' = exc
               /\ pc' = "exit"
               /\ submitted' = IF static_ip # NoValue
                                  THEN Append(submitted, "addresses.delete")
                                  ELSE submitted
          ELSE /\ outcome' = outcome
               /\ pc' = pc
               /\ submitted' = submitted
    /\ UNCHANGED <<exc, raisedIn, returned, loc, fetched, bodies, obs>>

\* no function has a try block: the exception leaves the innermost frame;
\* out of main it reaches the caller of main as it is
Propagate ==
    /\ exc # NoExc
    /\ stack # <<>>
    /\ stack' = Pop(stack)
    /\ IF Len(stack) = 1
          THEN /\ outcome' = exc
               /\ pc' = "exit"
          ELSE /\ outcome' = outcome
               /\ pc' = pc
    /\ UNCHANGED <<exc, raisedIn, returned, loc, req, obs>>

Next ==
    \/ Main_CallCreateAddress
    \/ CA_Insert
    \/ CA_Poll
    \/ CA_Sleep
    \/ CA_Get
    \/ Main_CallCreateFirewall
    \/ FW_Insert
    \/ FW_CallWait
    \/ WG_Poll
    \/ WG_Sleep
    \/ FW_Return
    \/ Main_CallCreateInstance
    \/ CI_Insert
    \/ CI_CallWait
    \/ WZ_Poll
    \/ WZ_Sleep
    \/ CI_Return
    \/ Main_Return
    \/ Propagate

Spec == Init /\ [][Next]_vars

\* the interpreter keeps running the one thread of the program: a statement
\* that can run does run
FairSpec == Spec /\ WF_vars(Next)

\* ------------------------------------------------------------ properties
\* the request 'api' has been issued
Submitted(api) == \E i \in DOMAIN submitted : submitted[i] = api

\* how many times the request 'api' has been issued
Count(api) == Cardinality({i \in DOMAIN submitted : submitted[i] = api})

\* the last status response at scope s was DONE without / with an error
DoneOK(s) == lastResult[s].status = "DONE" /\ lastResult[s].error = NoError
DoneErr(s) == lastResult[s].status = "DONE" /\ lastResult[s].error # NoError

\* the waiter function that polls at scope s, and the provisioner calling it
Waiter(s) == IF s = "global" THEN "wait_for_global_operation" ELSE "wait_for_operation"
Provisioner(s) == IF s = "global" THEN "create_firewall_rule" ELSE "create_instance"
WaiterScopes == {"global", "zonal"}

\* the poll loop at scope s has been left by its break
LoopLeft(s) ==
    IF s = "regional"
       THEN At("create_address", "ca_69") \/ Submitted("addresses.get")
       ELSE Waiter(s) \in returned

\* the operation of scope s was submitted and not yet seen DONE
InFlight(s) == operation[s] # NoOp /\ lastResult[s].status # "DONE"

\* natIP of the access config of the submitted instance body
SubmittedNatIP == bodies["instances.insert"].networkInterfaces[1].accessConfigs[1].natIP

\* C1: instances.insert is never submitted unless the regional address
\* operation was earlier observed DONE and without an error payload.
C1_InstanceOnlyAfterAddressSuccess ==
    Submitted("instances.insert") => DoneOK("regional")

\* C2: when the address operation is DONE with an error payload,
\* create_address does not return a value, neither firewalls.insert nor
\* instances.insert is ever submitted, and main fails with that payload.
C2_AddressErrorAborts ==
    DoneErr("regional") =>
        /\ "create_address" \notin returned
        /\ static_ip = NoValue
        /\ ~Submitted("firewalls.insert")
        /\ ~Submitted("instances.insert")
        /\ pc = "exit" => outcome = [type |-> "Exception",
                                     args |-> lastResult["regional"].error]

\* C3: in the zonal and the global waiter, a status response DONE with an
\* error payload makes the call fail with an exception whose content is
\* exactly that payload, and no further status query is issued.
C3_WaiterRaisesPayload ==
    /\ [](\A s \in WaiterScopes :
            DoneErr(s) => /\ exc = [type |-> "Exception", args |-> lastResult[s].error]
                          /\ raisedIn = Waiter(s)
                          /\ Waiter(s) \notin returned)
    /\ [][\A s \in WaiterScopes : DoneErr(s) => queries'[s] = queries[s]]_vars

C3_Witness ==
    /\ DoneErr("zonal")
    /\ lastResult["zonal"].error = "quota exceeded"
    /\ nonTerminal["zonal"] > 0
    /\ pc = "exit"
    /\ outcome = [type |-> "Exception", args |-> "quota exceeded"]
    /\ "wait_for_global_operation" \in returned

\* C4: each of the three poll loops is left by its break only when the last
\* status response of its operation is DONE, never on PENDING, RUNNING or a
\* response without a status.
C4_LoopLeftOnlyOnDone ==
    \A s \in Scopes : LoopLeft(s) => lastResult[s].status = "DONE"

C4_Witness ==
    /\ \A s \in Scopes : LoopLeft(s) /\ nonTerminal[s] = 2
    /\ sleeps["regional"] = 2

C6_NatIPIsFetchedAddress ==
    Submitted("instances.insert") =>
        /\ "create_address" \in returned
        /\ SubmittedNatIP = fetched.address
        /\ SubmittedNatIP = static_ip
        /\ SubmittedNatIP \in AddressValues

C6_Witness ==
    /\ Submitted("instances.insert")
    /\ fetched.address = "34.1.2.3"
    /\ SubmittedNatIP = "34.1.2.3"
    /\ nonTerminal["global"] > 0

\* C7: addresses.get is issued only after the regional operation was seen
\* DONE, at most once, and the value create_address returns is the address
\* field of that response.
C7_FetchAfterDoneOnce ==
    /\ Count("addresses.get") <= 1
    /\ Submitted("addresses.get") => lastResult["regional"].status = "DONE"
    /\ "create_address" \in returned =>
          /\ Count("addresses.get") = 1
          /\ static_ip = fetched.address
          /\ static_ip \in AddressValues
    /\ "create_address" \notin returned => static_ip = NoValue

C7_Witness ==
    /\ "create_address" \in returned
    /\ nonTerminal["regional"] = 1
    /\ static_ip = "35.9.8.7"
    /\ Count("addresses.get") = 1

\* C8: a waiter that got N non-terminal responses and then DONE without
\* error has issued exactly N+1 status queries, and issues none afterwards.
C8_QueriesAreNPlusOne ==
    /\ [](\A s \in WaiterScopes : DoneOK(s) => queries[s] = nonTerminal[s] + 1)
    /\ [][\A s \in WaiterScopes : DoneOK(s) => queries'[s] = queries[s]]_vars

C8_Witness ==
    /\ DoneOK("zonal")
    /\ "wait_for_operation" \in returned
    /\ nonTerminal["zonal"] = 3
    /\ queries["zonal"] = 4
    /\ pc = "exit"

\* C9: after a status response DONE without an error payload the waiter has
\* returned normally, no exception comes from it or from the provisioner
\* that called it, and that provisioner returns.
C9_DoneWithoutErrorReturns ==
    \A s \in WaiterScopes :
        DoneOK(s) =>
            /\ Waiter(s) \in returned
            /\ raisedIn \notin {Waiter(s), Provisioner(s)}
            /\ \/ Provisioner(s) \in returned
               \/ At(Provisioner(s), IF s = "global" THEN "fw_94" ELSE "ci_138")

C9_Witness ==
    /\ DoneOK("global")
    /\ DoneOK("zonal")
    /\ "create_firewall_rule" \in returned
    /\ "create_instance" \in returned
    /\ outcome = ReturnedNone

\* C10: the requests are issued in the order addresses.insert,
\* addresses.get, firewalls.insert, instances.insert, each at most once;
\* at most one operation is in flight; firewalls.insert comes after the
\* address operation was seen DONE and the address fetched, instances.insert
\* after the firewall operation was seen DONE without error.
C10_Order == <<"addresses.insert", "addresses.get", "firewalls.insert", "instances.insert">>

C10_StrictlySequential ==
    /\ Len(submitted) <= Len(C10_Order)
    /\ submitted = SubSeq(C10_Order, 1, Len(submitted))
    /\ Cardinality({s \in Scopes : InFlight(s)}) <= 1
    /\ Submitted("firewalls.insert") =>
          /\ lastResult["regional"].status = "DONE"
          /\ fetched.address # NoValue
          /\ "create_address" \in returned
    /\ Submitted("instances.insert") =>
          /\ DoneOK("global")
          /\ "create_firewall_rule" \in returned

C10_Witness ==
    /\ InFlight("zonal")
    /\ nonTerminal["zonal"] = 1
    /\ nonTerminal["regional"] = 1
    /\ nonTerminal["global"] = 1
    /\ submitted = C10_Order

\* some request raised, or some operation ended with an error payload
SomethingFailed == exc # NoExc \/ \E s \in Scopes : DoneErr(s)

\* main has returned normally to its caller
Completed == outcome = ReturnedNone

TotalQueries == queries["regional"] + queries["global"] + queries["zonal"]

\* C11: when no request raises and every operation ends DONE without error,
\* main eventually returns normally, having issued addresses.insert,
\* firewalls.insert and instances.insert once each in that order; when every
\* operation is DONE at its first query, three status queries were issued.
C11_EventuallyCompletes ==
    /\ <>(SomethingFailed \/ Completed)
    /\ [](Completed =>
            /\ exc = NoExc
            /\ submitted = C10_Order
            /\ \A s \in Scopes : lastResult[s].status = "DONE" /\ queries[s] = nonTerminal[s] + 1
            /\ (\A s \in Scopes : nonTerminal[s] = 0) => TotalQueries = 3)

C11_Witness ==
    /\ Completed
    /\ ~SomethingFailed
    /\ \A s \in Scopes : nonTerminal[s] = 0
    /\ TotalQueries = 3
    /\ static_ip = "34.1.2.3"

\* the statements of the poll loop at scope s: the query and the sleep
PollLabel(s) == IF s = "regional" THEN "ca_60" ELSE IF s = "global" THEN "wg_38" ELSE "wz_23"
SleepLabel(s) == IF s = "regional" THEN "ca_65" ELSE IF s = "global" THEN "wg_43" ELSE "wz_30"

\* the function that contains the poll loop at scope s
Poller(s) == IF s = "regional" THEN "create_address" ELSE Waiter(s)

\* the status query of scope s and the insert whose operation it polls
QueryApi(s) ==
    IF s = "regional" THEN "regionOperations.get"
    ELSE IF s = "global" THEN "globalOperations.get" ELSE "zoneOperations.get"
InsertApi(s) ==
    IF s = "regional" THEN "addresses.insert"
    ELSE IF s = "global" THEN "firewalls.insert" ELSE "instances.insert"

\* the requests that come after the poll loop at scope s
LaterRequests(s) ==
    IF s = "regional" THEN {"addresses.get", "firewalls.insert", "instances.insert"}
    ELSE IF s = "global" THEN {"instances.insert"} ELSE {}

\* the poll loop at scope s has been entered and no response said DONE
Polling(s) ==
    /\ queries[s] > 0 \/ At(Poller(s), PollLabel(s))
    /\ lastResult[s].status # "DONE"

\* C12: the poll loops have no retry limit, timeout or cancellation: as long
\* as no response of an operation said DONE and no status query raised, the
\* program is inside that operation's poll loop, main has neither returned
\* nor failed, and no later request is submitted, whatever the number of
\* queries already made; the only step out of the sleep is the next query.
C12_NoTimeout ==
    /\ [](\A s \in Scopes :
            Polling(s) =>
               \/ exc = HttpError(QueryApi(s))
               \/ /\ exc = NoExc
                  /\ outcome = Running
                  /\ Top(stack) = Poller(s)
                  /\ pc \in {PollLabel(s), SleepLabel(s)}
                  /\ \A a \in LaterRequests(s) : ~Submitted(a))
    /\ [][\A s \in Scopes :
            At(Poller(s), SleepLabel(s)) => At(Poller(s), PollLabel(s))']_vars

C12_Witness ==
    /\ Polling("zonal")
    /\ nonTerminal["zonal"] = MaxPolls
    /\ queries["zonal"] = MaxPolls
    /\ At("wait_for_operation", "wz_23")
    /\ outcome = Running

\* the requests that create a resource
Inserts == {"addresses.insert", "firewalls.insert", "instances.insert"}

\* C13: each of addresses.insert, firewalls.insert and instances.insert is
\* submitted at most once in a run; the only other request besides status
\* queries is addresses.get, so nothing is ever deleted or undone; requests
\* issued stay issued, and after a failure no further request is made.
C13_NoRetryNoRollback ==
    /\ [](/\ \A a \in Inserts : Count(a) <= 1
          /\ \A i \in DOMAIN submitted : submitted[i] \in Inserts \cup {"addresses.get"})
    /\ [][/\ Len(submitted') >= Len(submitted)
          /\ SubSeq(submitted', 1, Len(submitted)) = submitted
          /\ exc # NoExc => submitted' = submitted]_vars

C13_Witness ==
    /\ pc = "exit"
    /\ raisedIn = "wait_for_operation"
    /\ DoneErr("zonal")
    /\ DoneOK("regional")
    /\ DoneOK("global")
    /\ submitted = C10_Order
    /\ outcome = [type |-> "Exception", args |-> "quota exceeded"]

\* the provisioner that submits at scope s
Submitter(s) == IF s = "regional" THEN "create_address" ELSE Provisioner(s)

\* C14: when an insert request itself raises, the error is in flight from
\* the provisioner that made the request, the request was made once, no
\* status query was issued for that step, no later request exists, and from
\* then on nothing is submitted or queried while the error reaches the
\* caller of main.
C14_SubmissionFailureSurfaces ==
    /\ [](\A s \in Scopes :
            exc = HttpError(InsertApi(s)) =>
               /\ raisedIn = Submitter(s)
               /\ Count(InsertApi(s)) = 1
               /\ submitted[Len(submitted)] = InsertApi(s)
               /\ queries[s] = 0
               /\ operation[s] = NoOp
               /\ \A a \in LaterRequests(s) : ~Submitted(a)
               /\ pc = "exit" => outcome = HttpError(InsertApi(s)))
    /\ [][\A s \in Scopes :
            exc = HttpError(InsertApi(s)) =>
               /\ exc' = exc
               /\ submitted' = submitted
               /\ queries' = queries
               /\ sleeps' = sleeps]_vars

C14_Witness ==
    /\ exc = HttpError("firewalls.insert")
    /\ pc = "exit"
    /\ outcome = HttpError("firewalls.insert")
    /\ queries["global"] = 0
    /\ queries["regional"] = 2
    /\ ~Submitted("instances.insert")

\* the identifying context a status query of scope s must carry
ScopeContext(s) ==
    IF s = "regional" THEN <<"cloud-assignment-450118", "us-central1">>
    ELSE IF s = "global" THEN <<"cloud-assignment-450118">>
    ELSE <<"cloud-assignment-450118", "us-central1-a">>

\* C15: every status query names the operation returned by the insert of
\* its own step and carries that scope's context: regional (project, region)
\* for the address, global (project) for the firewall, zonal (project, zone)
\* for the instance; a scope is queried only from its own poll loop, after
\* its own insert and before any later step's insert.
C15_QueriesTargetOwnOperation ==
    /\ [](\A p \in polled :
            /\ p.operation \in OpNames
            /\ p.operation = operation[p.scope]
            /\ p.ctx = ScopeContext(p.scope)
            /\ Submitted(InsertApi(p.scope)))
    /\ [](\A s \in Scopes : queries[s] > 0 <=> \E p \in polled : p.scope = s)
    /\ [][\A s \in Scopes :
            queries'[s] # queries[s] =>
               /\ At(Poller(s), PollLabel(s))
               /\ submitted[Len(submitted)] = InsertApi(s)]_vars

C15_Witness ==
    /\ Cardinality(polled) = 3
    /\ operation["regional"] = "operation-1"
    /\ operation["global"] = "operation-2"
    /\ operation["zonal"] = "operation-1"
    /\ queries["zonal"] = 2

\* C16: the program sleeps only in the poll loops: once after each status
\* response that was not DONE and before the next query of that operation,
\* never after DONE, so a wait that ended after Q queries slept Q-1 times.
C16_SleepsBetweenQueries ==
    /\ [](\A s \in Scopes :
            /\ At(Poller(s), PollLabel(s)) => sleeps[s] = queries[s] /\ sleeps[s] = nonTerminal[s]
            /\ At(Poller(s), SleepLabel(s)) =>
                  /\ sleeps[s] = nonTerminal[s] - 1
                  /\ lastResult[s].status \in NonTerminal
            /\ lastResult[s].status = "DONE" => sleeps[s] = queries[s] - 1
            /\ LoopLeft(s) => sleeps[s] = queries[s] - 1)
    /\ [][\A s \in Scopes :
            sleeps'[s] # sleeps[s] =>
               /\ At(Poller(s), SleepLabel(s))
               /\ sleeps'[s] = sleeps[s] + 1
               /\ queries'[s] = queries[s]
               /\ At(Poller(s), PollLabel(s))']_vars

C16_Witness ==
    /\ LoopLeft("regional")
    /\ queries["regional"] = 3
    /\ sleeps["regional"] = 2
    /\ "wait_for_global_operation" \in returned
    /\ queries["global"] = 1
    /\ sleeps["global"] = 0

\* C17: the zonal and the global waiter look at the error field only of a
\* DONE response: an exception made from a payload exists only after DONE
\* with an error, and a response that is PENDING, RUNNING or without status
\* sends the waiter to its sleep, whether or not it carries an error field.
C17_ErrorReadOnlyWhenDone ==
    /\ [](\A s \in WaiterScopes :
            /\ (exc.type = "Exception" /\ raisedIn = Waiter(s)) => DoneErr(s)
            /\ lastResult[s].status \in NonTerminal =>
                  /\ exc \in {NoExc, HttpError(QueryApi(s))}
                  /\ Waiter(s) \notin returned)
    /\ [][\A s \in WaiterScopes :
            (nonTerminal'[s] # nonTerminal[s]) =>
               /\ lastResult'[s].status \in NonTerminal
               /\ At(Waiter(s), SleepLabel(s))']_vars

C17_Witness ==
    /\ lastResult["zonal"] = [status |-> "RUNNING", error |-> "quota exceeded"]
    /\ At("wait_for_operation", "wz_23")
    /\ sleeps["zonal"] = 2
    /\ lastResult["global"].status = "DONE"

\* the elements of a list
Elements(list) == {list[i] : i \in DOMAIN list}

\* C18: every firewalls.insert carries one allow entry, protocol tcp with
\* ports 22 and 80, direction INGRESS and the single source range
\* 0.0.0.0/0, and every instances.insert carries the tags http-server and
\* ssh-server and no other, whatever the earlier operations answered and
\* however often they were polled; a body sent is not changed afterwards.
C18_FixedBodies ==
    /\ [](Submitted("firewalls.insert") =>
            /\ Len(bodies["firewalls.insert"].allowed) = 1
            /\ bodies["firewalls.insert"].allowed[1].IPProtocol = "tcp"
            /\ Elements(bodies["firewalls.insert"].allowed[1].ports) = {"22", "80"}
            /\ Len(bodies["firewalls.insert"].allowed[1].ports) = 2
            /\ bodies["firewalls.insert"].direction = "INGRESS"
            /\ bodies["firewalls.insert"].sourceRanges = <<"0.0.0.0/0">>)
    /\ [](Submitted("instances.insert") =>
            /\ Elements(bodies["instances.insert"].tags.items) = {"http-server", "ssh-server"}
            /\ Len(bodies["instances.insert"].tags.items) = 2)
    /\ [][\A a \in Inserts : Submitted(a) => bodies'[a] = bodies[a]]_vars

C18_Witness ==
    /\ Submitted("firewalls.insert")
    /\ Submitted("instances.insert")
    /\ DoneErr("regional")
    /\ nonTerminal["global"] = 2
    /\ nonTerminal["zonal"] = 1
    /\ bodies["firewalls.insert"].name = "allow-ssh-http"
    /\ bodies["instances.insert"].name = "cloud-ca-vm-instance"
====
